---- MODULE Spec2Model ----
(***************************************************************************)
(* Application lifecycle of the TrabajaTecnico backend:                    *)
(*   POST /applications            (submitApplication)                     *)
(*   PUT  /applications/:id/status (updateStatus)                          *)
(*   PUT  /applications/:id/withdraw (withdraw)                            *)
(* together with the notification writer, the transactional mailer, the    *)
(* CV upload that enables applying, and the environment (calendar, project *)
(* status maintenance).  Every request is a process whose steps are the    *)
(* awaited queries of its handler, so requests interleave at the storage   *)
(* layer exactly where the handlers await.                                 *)
(***************************************************************************)
EXTENDS Integers, Sequences, FiniteSets, TLC

(* ---------------------------- bounds ---------------------------------- *)
MaxRequests == 2      \* requests started in one behaviour

(* ---------------------------- universe -------------------------------- *)
Technicians == {"t1", "t2"}
Companies == {"c1", "c2"}
Users == Technicians \cup Companies
NoToken == "none"
Slots == {1, 2}                               \* concurrently served requests
Projects == {1, 2}                            \* rows of table projects
MissingProject == 3                           \* an id with no projects row
ProjectIds == Projects \cup {MissingProject}
AppIds == {1, 2}                              \* application ids a request may name
ProjectStatuses == {"open", "completed"}
AppStatuses == {"pending", "accepted", "rejected", "withdrawn"}
StatusInputs == AppStatuses \cup {"bogus"}

\* projects.company_id of the two rows
ProjectCompany(p) == IF p = 1 THEN "c1" ELSE "c2"
\* projects.application_deadline >= CURDATE(): the deadline of project 2 has passed
DeadlineOpen(p) == p = 1

VARIABLES
  apps,             \* table project_applications, row id = position
  notifications,    \* table notifications, row id = position
  mails,            \* transporter.sendMail calls made so far
  profile,          \* technician_profiles: "missing" | "nocv" | "cv" per technician
  companyProfile,   \* company_profiles: user_ids that have a row
  projStatus,       \* projects.status
  mailEnv,          \* process.env.EMAIL_USER and EMAIL_PASS at startup
  emailConfigured,  \* isEmailConfigured, fixed when emailService is loaded
  files,            \* names of the files in the uploads directory
  deleted,          \* ids of the notifications rows that have been deleted
  users,            \* table users: the ids that have a row
  req,              \* the requests being served, one per slot
  started,          \* number of requests started
  ok201             \* history: (project, technician) pairs answered 201

vars == <<apps, notifications, mails, profile, companyProfile, projStatus,
          mailEnv, emailConfigured, files, deleted, users, req, started, ok201>>

db == <<apps, notifications, mails>>
env == <<profile, companyProfile, projStatus, mailEnv, emailConfigured, files,
         deleted, users>>

(* ---------------------------- requests -------------------------------- *)
NoResp == [code |-> 0, error |-> ""]
Resp(c, e) == [code |-> c, error |-> e]

Idle ==
  [kind |-> "idle", pc |-> "idle", userId |-> NoToken, projectId |-> 0,
   appId |-> 0, status |-> "", resp |-> NoResp,
   insertId |-> 0,          \* result.insertId
   application |-> "",      \* status of the row the handler selected
   seenProfile |-> "",      \* history: what the cv query returned
   seenProject |-> "",      \* history: what the project query returned
   seenExisting |-> "",     \* history: what the duplicate query returned
   wrote |-> FALSE,         \* history: the primary write was executed
   notified |-> <<>>,       \* history: user_ids of notification rows it inserted
   notifFailed |-> FALSE,   \* history: a notification insert of it failed
   notifResults |-> <<>>,   \* history: what its calls of createNotification returned
   mailAttempts |-> 0,      \* history: sendMail calls it made
   mailFailed |-> FALSE,    \* history: a sendMail call of it failed
   mailResults |-> <<>>,    \* history: what its calls of the mailer returned
   attachment |-> "",       \* history: the attachment of its operations email
   filename |-> "",         \* req.params.filename of DELETE /upload/:filename
   seg |-> "",              \* the path segment after /notifications/
   route |-> "",            \* the route of the notifications router that ran
   after201 |-> FALSE]      \* history: its pair had been answered 201 before it started

userType(u) == IF u \in Technicians THEN "technician" ELSE "company"

Done(r, c, e) == [r EXCEPT !.pc = "done", !.resp = Resp(c, e)]

\* res.json() is the last statement of a handler: the response leaves before
\* another request or the environment moves
Responding == \E s \in Slots : req[s].pc = "done"


(* ------------------------- middleware/auth ---------------------------- *)
\* authenticateToken: a request without a valid token is answered 401
Authenticated(token) == token \in users

(* ------------------- POST /applications : queries --------------------- *)
\* SELECT cv_uploaded FROM technician_profiles WHERE user_id = ?
TechnicianProfileRows(u) ==
  IF u \in Technicians /\ profile[u] # "missing"
  THEN <<[cv_uploaded |-> (profile[u] = "cv")]>>
  ELSE <<>>

\* the "CV requerido" test on the rows of the query above
CvRequired_IgnoresFlag(rows) == Len(rows) = 0
CvRequired(rows) == Len(rows) = 0 \/ ~rows[1].cv_uploaded

\* SELECT * FROM projects WHERE id = ? AND status = "open"
OpenProjectRows_AnyStatus(p) == {q \in Projects : q = p}
OpenProjectRows(p) == {q \in Projects : q = p /\ projStatus[q] = "open"}

\* SELECT id FROM project_applications WHERE project_id = ? AND technician_id = ?
ExistingApplication_Never(p, u) == {}
ExistingApplication(p, u) ==
  {i \in 1..Len(apps) : apps[i].project_id = p /\ apps[i].technician_id = u}

\* SELECT p.title, p.company_id, cp.company_name FROM projects p
\*   JOIN company_profiles cp ON p.company_id = cp.user_id WHERE p.id = ?
ProjectInfoFound(p) == p \in Projects /\ ProjectCompany(p) \in companyProfile

(* ------------------- POST /applications : steps ----------------------- *)
\* authenticateToken, the express-validator chain and the role test
StartSubmit(s, token, p, valid) ==
  /\ ~Responding /\ req[s].kind = "idle"
  /\ started < MaxRequests
  /\ started' = started + 1
  /\ LET r == [Idle EXCEPT !.kind = "submit", !.userId = token, !.projectId = p,
                           !.after201 = (<<p, token>> \in ok201)]
     IN req' = [req EXCEPT ![s] =
          IF ~Authenticated(token) THEN Done(r, 401, "Token requerido")
          ELSE IF ~valid THEN Done(r, 400, "Datos invalidos")
          ELSE IF userType(token) # "technician" THEN Done(r, 403, "Acceso denegado")
          ELSE [r EXCEPT !.pc = "cv"]]
  /\ UNCHANGED <<db, env, ok201>>

\* the cv_uploaded query and its test
SubmitCheckCv_TestSkipped(s) ==
  /\ ~Responding
  /\ req[s].kind = "submit" /\ req[s].pc = "cv"
  /\ req' = [req EXCEPT ![s] = [req[s] EXCEPT !.pc = "project",
                                   !.seenProfile = profile[req[s].userId]]]
  /\ UNCHANGED <<db, env, started, ok201>>
SubmitCheckCv(s) ==
  /\ ~Responding
  /\ req[s].kind = "submit" /\ req[s].pc = "cv"
  /\ LET rows == TechnicianProfileRows(req[s].userId)
         r == [req[s] EXCEPT !.seenProfile = profile[req[s].userId]]
     IN req' = [req EXCEPT ![s] =
          IF CvRequired(rows) THEN Done(r, 400, "CV requerido")
          ELSE [r EXCEPT !.pc = "project"]]
  /\ UNCHANGED <<db, env, started, ok201>>

\* the open-project query and its test
SubmitCheckProject(s) ==
  /\ ~Responding
  /\ req[s].kind = "submit" /\ req[s].pc = "project"
  /\ LET p == req[s].projectId
         r == [req[s] EXCEPT !.seenProject =
                 IF p \in Projects THEN projStatus[p] ELSE "absent"]
     IN req' = [req EXCEPT ![s] =
          IF OpenProjectRows(p) = {} THEN Done(r, 404, "Proyecto no encontrado")
          ELSE [r EXCEPT !.pc = "existing"]]
  /\ UNCHANGED <<db, env, started, ok201>>

\* the duplicate query and its test
SubmitCheckExisting(s) ==
  /\ ~Responding
  /\ req[s].kind = "submit" /\ req[s].pc = "existing"
  /\ LET found == ExistingApplication(req[s].projectId, req[s].userId) # {}
         r == [req[s] EXCEPT !.seenExisting = IF found THEN "found" ELSE "none"]
     IN req' = [req EXCEPT ![s] =
          IF found THEN Done(r, 400, "Ya aplicaste")
          ELSE [r EXCEPT !.pc = "insert"]]
  /\ UNCHANGED <<db, env, started, ok201>>

\* table project_applications as the handlers see it: the insert is accepted
\* whatever rows the table holds (no key on (project_id, technician_id) turns
\* a second row of a pair into a write-time conflict)
InsertApplication(row) == Append(apps, row)

\* the row of INSERT INTO project_applications (project_id, technician_id, ...):
\* no status is given, so the row gets the column default, pending.
\* open_at_insert and deadline_at_insert are history fields: the project's
\* status and deadline test at the moment of the insert.
NewApplication_Accepted(p, u) ==
  [project_id |-> p, technician_id |-> u, status |-> "accepted",
   open_at_insert |-> (projStatus[p] = "open"),
   deadline_at_insert |-> DeadlineOpen(p)]
NewApplication(p, u) ==
  [project_id |-> p, technician_id |-> u, status |-> "pending",
   open_at_insert |-> (projStatus[p] = "open"),
   deadline_at_insert |-> DeadlineOpen(p)]

\* the INSERT and its result.insertId
SubmitInsert_NotAwaited(s) ==
  /\ ~Responding
  /\ req[s].kind = "submit" /\ req[s].pc = "insert"
  /\ req' = [req EXCEPT ![s] = [req[s] EXCEPT !.pc = "projectInfo"]]
  /\ UNCHANGED <<db, env, started, ok201>>
SubmitInsert(s) ==
  /\ ~Responding
  /\ req[s].kind = "submit" /\ req[s].pc = "insert"
  /\ apps' = InsertApplication(NewApplication(req[s].projectId, req[s].userId))
  /\ req' = [req EXCEPT ![s] = [req[s] EXCEPT !.pc = "projectInfo",
                                   !.insertId = Len(apps) + 1, !.wrote = TRUE]]
  /\ UNCHANGED <<notifications, mails, env, started, ok201>>

\* the projectInfo query; reading projectInfo.title of a missing row throws
\* once technicianInfo has been fetched, which the handler's catch turns into 500
SubmitProjectInfo(s) ==
  /\ ~Responding
  /\ req[s].kind = "submit" /\ req[s].pc = "projectInfo"
  /\ req' = [req EXCEPT ![s] = [req[s] EXCEPT !.pc =
       IF ProjectInfoFound(req[s].projectId) THEN "techInfo" ELSE "techInfoThenThrow"]]
  /\ UNCHANGED <<db, env, started, ok201>>

\* the technicianInfo query (users LEFT JOIN technician_profiles)
SubmitTechInfo_RollsBack(s) ==
  /\ ~Responding
  /\ req[s].kind = "submit" /\ req[s].pc \in {"techInfo", "techInfoThenThrow"}
  /\ IF req[s].pc = "techInfoThenThrow"
     THEN /\ req' = [req EXCEPT ![s] =
               Done(req[s], 500, "Error interno del servidor")]
          /\ apps' = SubSeq(apps, 1, Len(apps) - 1)
     ELSE /\ req' = [req EXCEPT ![s] = [req[s] EXCEPT !.pc = "notifyTechnician"]]
          /\ apps' = apps
  /\ UNCHANGED <<notifications, mails, env, started, ok201>>
SubmitTechInfo(s) ==
  /\ ~Responding
  /\ req[s].kind = "submit" /\ req[s].pc \in {"techInfo", "techInfoThenThrow"}
  /\ req' = [req EXCEPT ![s] =
       IF req[s].pc = "techInfoThenThrow"
       THEN Done(req[s], 500, "Error interno del servidor")
       ELSE [req[s] EXCEPT !.pc = "notifyTechnician"]]
  /\ UNCHANGED <<db, env, started, ok201>>

(* ------------------------ notification writer ------------------------- *)
\* createNotification: one INSERT INTO notifications; a failing insert is
\* caught inside and reported as {success:false}, so the table is unchanged
CreateNotification(userId, type, title, relatedId, insertOk) ==
  IF insertOk
  THEN Append(notifications, [user_id |-> userId, type |-> type, title |-> title,
                              related_id |-> relatedId, is_read |-> FALSE])
  ELSE notifications

\* the title chosen by the switch of createApplicationStatusNotification
StatusTitle_AlwaysDefault(status) == "Estado de Aplicacion Actualizado"
StatusTitle(status) ==
  CASE status = "accepted" -> "Aplicacion Aceptada"
    [] status = "rejected" -> "Aplicacion Rechazada"
    [] status = "withdrawn" -> "Aplicacion Retirada"
    [] OTHER -> "Estado de Aplicacion Actualizado"

\* the outcome of a createNotification call: it returns
\* {success: true, notificationId: result.insertId} from the try block and
\* {success: false, error} from the catch block; nothing is thrown
CreateNotificationResult_Rethrows(insertOk) ==
  [raised |-> ~insertOk, success |-> insertOk,
   notificationId |-> IF insertOk THEN Len(notifications) + 1 ELSE 0]
CreateNotificationResult(insertOk) ==
  [raised |-> FALSE, success |-> insertOk,
   notificationId |-> IF insertOk THEN Len(notifications) + 1 ELSE 0]

\* history bookkeeping of a request after one createNotification call
Notified(r, userId, insertOk) ==
  IF insertOk
  THEN [r EXCEPT !.notified = Append(@, userId),
                 !.notifResults = Append(@, CreateNotificationResult(insertOk))]
  ELSE [r EXCEPT !.notifFailed = TRUE,
                 !.notifResults = Append(@, CreateNotificationResult(insertOk))]

(* ------------------------------ uploads ------------------------------- *)
\* the name multer gives the CV a technician uploads (fieldname-suffix.ext)
CvName(t) == IF t = "t1" THEN "cv-t1.pdf" ELSE "cv-t2.pdf"
NoFile == "absent.pdf"                       \* a name with no file
FileNames == {CvName(t) : t \in Technicians} \cup {NoFile}
UploadPath == "./uploads"                    \* process.env.UPLOAD_PATH || './uploads'

\* fileUrl of POST /upload/cv: API_URL, "uploads" and the file's name
FileUrl(name) == <<"http://localhost:3001", "uploads", name>>

\* technician_profiles.cv_file: set only by POST /upload/cv, to the file's URL
CvFile(u) ==
  IF u \in Technicians /\ profile[u] = "cv" THEN FileUrl(CvName(u)) ELSE <<>>

\* cvFilePath of POST /applications: path.join(UPLOAD_PATH, cv_file), or null
CvFilePath(cv_file) == IF cv_file = <<>> THEN <<>> ELSE <<UploadPath>> \o cv_file

\* the file at a path exists: it lies in the uploads directory under its name
FileExists(path) == Len(path) = 2 /\ path[1] = UploadPath /\ path[2] \in files

\* what sendJobApplicationEmail attaches
Attachment(path) ==
  IF path = <<>> THEN "none" ELSE IF FileExists(path) THEN "present" ELSE "missing"

(* ------------------------ transactional mailer ------------------------ *)
OpsMailbox == "hola.trabajatecnico@gmail.com"

\* the two variables validateEmailConfig requires, each absent ("") or set
MailEnvs == [EMAIL_USER : {"", "set"}, EMAIL_PASS : {"", "set"}]

\* validateEmailConfig: no required field is missing
ValidateEmailConfig_UserOnly(e) == e.EMAIL_USER # ""
ValidateEmailConfig(e) ==
  {f \in {"EMAIL_USER", "EMAIL_PASS"} : e[f] = ""} = {}

\* the isEmailConfigured gate at the top of both send functions
MailerSends_Always == TRUE
MailerSends == emailConfigured

\* sendMail reads the attachment from its path: the send cannot succeed when
\* the file is missing
SendCanSucceed_Always(attachment) == TRUE
SendCanSucceed(attachment) == attachment # "missing"

\* transporter.sendMail(mailOptions): an attempt is made whatever its outcome
SendMail(template, to) == Append(mails, [template |-> template, to |-> to])

\* the send functions return {success: true} after sendMail, {success: false}
\* when sendMail rejects
Mailed(r, sendOk) ==
  [r EXCEPT !.mailAttempts = @ + 1, !.mailFailed = (@ \/ ~sendOk),
            !.mailResults = Append(@, IF sendOk THEN "sent" ELSE "failed")]

\* return { success: false, error: 'Email no configurado' } before any sendMail
NotMailed(r) == [r EXCEPT !.mailResults = Append(@, "not_configured")]

(* -------------- POST /applications : the four side effects ------------ *)
\* createJobApplicationNotification(req.user.userId, projectId, title)
SubmitNotifyTechnician(s, insertOk) ==
  /\ ~Responding
  /\ req[s].kind = "submit" /\ req[s].pc = "notifyTechnician"
  /\ notifications' = CreateNotification(req[s].userId, "job_application",
                        "Aplicacion Enviada", req[s].projectId, insertOk)
  /\ req' = [req EXCEPT ![s] =
       [Notified(req[s], req[s].userId, insertOk) EXCEPT !.pc = "notifyCompany"]]
  /\ UNCHANGED <<apps, mails, env, started, ok201>>

\* createNewApplicationNotification(projectInfo.company_id, projectId, ...)
SubmitNotifyCompany(s, insertOk) ==
  /\ ~Responding
  /\ req[s].kind = "submit" /\ req[s].pc = "notifyCompany"
  /\ LET c == ProjectCompany(req[s].projectId)
     IN /\ notifications' = CreateNotification(c, "new_application",
                              "Nueva Aplicacion Recibida", req[s].projectId, insertOk)
        /\ req' = [req EXCEPT ![s] =
             [Notified(req[s], c, insertOk) EXCEPT !.pc = "mailConfirmation"]]
  /\ UNCHANGED <<apps, mails, env, started, ok201>>

\* sendApplicationConfirmationEmail(technicianInfo.email, ...)
SubmitMailConfirmation_Unordered(s, sendOk) ==
  /\ ~Responding
  /\ req[s].kind = "submit" /\ req[s].pc \in {"notifyCompany", "mailConfirmation"}
  /\ IF MailerSends
     THEN /\ mails' = SendMail("confirmation", req[s].userId)
          /\ req' = [req EXCEPT ![s] = [Mailed(req[s], sendOk) EXCEPT !.pc = "mailOperations"]]
     ELSE /\ sendOk
          /\ mails' = mails
          /\ req' = [req EXCEPT ![s] = [NotMailed(req[s]) EXCEPT !.pc = "mailOperations"]]
  /\ UNCHANGED <<apps, notifications, env, started, ok201>>
SubmitMailConfirmation(s, sendOk) ==
  /\ ~Responding
  /\ req[s].kind = "submit" /\ req[s].pc = "mailConfirmation"
  /\ IF MailerSends
     THEN /\ mails' = SendMail("confirmation", req[s].userId)
          /\ req' = [req EXCEPT ![s] = [Mailed(req[s], sendOk) EXCEPT !.pc = "mailOperations"]]
     ELSE /\ sendOk
          /\ mails' = mails
          /\ req' = [req EXCEPT ![s] = [NotMailed(req[s]) EXCEPT !.pc = "mailOperations"]]
  /\ UNCHANGED <<apps, notifications, env, started, ok201>>

\* sendJobApplicationEmail({...}) followed by res.status(201)
SubmitMailOperations(s, sendOk) ==
  /\ ~Responding
  /\ req[s].kind = "submit" /\ req[s].pc = "mailOperations"
  /\ IF MailerSends
     THEN LET att == Attachment(CvFilePath(CvFile(req[s].userId)))
          IN /\ sendOk => SendCanSucceed(att)
             /\ mails' = SendMail("job_application", OpsMailbox)
             /\ req' = [req EXCEPT ![s] =
                  Done([Mailed(req[s], sendOk) EXCEPT !.attachment = att], 201, "")]
     ELSE /\ sendOk
          /\ mails' = mails
          /\ req' = [req EXCEPT ![s] = Done(NotMailed(req[s]), 201, "")]
  /\ ok201' = ok201 \cup {<<req[s].projectId, req[s].userId>>}
  /\ UNCHANGED <<apps, notifications, env, started>>

(* ----------------- PUT /applications/:id/status ----------------------- *)
\* body('status').isIn(['pending', 'accepted', 'rejected', 'withdrawn'])
StatusValid(status) == status \in {"pending", "accepted", "rejected", "withdrawn"}

\* the permission test of the status handler on the selected row
StatusForbidden_AnyCompany(u, id) == userType(u) # "company"
StatusForbidden_Never(u, id) == FALSE
StatusForbidden_UnlessPending(u, id) ==
  \/ userType(u) # "company" \/ ProjectCompany(apps[id].project_id) # u
  \/ apps[id].status # "pending"
StatusForbidden(u, id) ==
  userType(u) # "company" \/ ProjectCompany(apps[id].project_id) # u

StartStatus(s, token, id, status) ==
  /\ ~Responding /\ req[s].kind = "idle"
  /\ started < MaxRequests
  /\ started' = started + 1
  /\ LET r == [Idle EXCEPT !.kind = "status", !.userId = token, !.appId = id,
                           !.status = status]
     IN req' = [req EXCEPT ![s] =
          IF ~Authenticated(token) THEN Done(r, 401, "Token requerido")
          ELSE IF ~StatusValid(status) THEN Done(r, 400, "Datos invalidos")
          ELSE [r EXCEPT !.pc = "select"]]
  /\ UNCHANGED <<db, env, ok201>>

\* SELECT pa.*, p.title, p.company_id, ... WHERE pa.id = ?  and the two tests
StatusSelect(s) ==
  /\ ~Responding
  /\ req[s].kind = "status" /\ req[s].pc = "select"
  /\ LET id == req[s].appId
     IN req' = [req EXCEPT ![s] =
          IF id \notin 1..Len(apps) THEN Done(req[s], 404, "Aplicacion no encontrada")
          ELSE IF StatusForbidden(req[s].userId, id)
               THEN Done([req[s] EXCEPT !.application = apps[id].status],
                         403, "Acceso denegado")
          ELSE [req[s] EXCEPT !.pc = "update", !.application = apps[id].status]]
  /\ UNCHANGED <<db, env, started, ok201>>

\* UPDATE project_applications SET status = ? WHERE id = ?
StatusUpdate(s) ==
  /\ ~Responding
  /\ req[s].kind = "status" /\ req[s].pc = "update"
  /\ apps' = [apps EXCEPT ![req[s].appId].status = req[s].status]
  /\ req' = [req EXCEPT ![s] = [req[s] EXCEPT !.pc = "notify", !.wrote = TRUE]]
  /\ UNCHANGED <<notifications, mails, env, started, ok201>>

(* ----------------- PUT /applications/:id/withdraw --------------------- *)
\* the names applications.js binds at module level from notificationService;
\* createApplicationStatusNotification is bound only inside the status handler
ModuleImports == {"createJobApplicationNotification", "createNewApplicationNotification"}
InScope(kind, name) == kind = "status" \/ name \in ModuleImports

\* SELECT pa.*, p.title ... WHERE pa.id = ? AND pa.technician_id = ?
WithdrawRows_AnyTechnician(id, u) == {i \in 1..Len(apps) : i = id}
WithdrawRows(id, u) == {i \in 1..Len(apps) : i = id /\ apps[i].technician_id = u}

\* the "Solo se pueden retirar aplicaciones pendientes" test
NotPending_Never(status) == FALSE
NotPending(status) == status # "pending"

StartWithdraw(s, token, id) ==
  /\ ~Responding /\ req[s].kind = "idle"
  /\ started < MaxRequests
  /\ started' = started + 1
  /\ LET r == [Idle EXCEPT !.kind = "withdraw", !.userId = token, !.appId = id,
                           !.status = "withdrawn"]
     IN req' = [req EXCEPT ![s] =
          IF ~Authenticated(token) THEN Done(r, 401, "Token requerido")
          ELSE [r EXCEPT !.pc = "select"]]
  /\ UNCHANGED <<db, env, ok201>>

\* the ownership query and the three tests that follow it
WithdrawSelect(s) ==
  /\ ~Responding
  /\ req[s].kind = "withdraw" /\ req[s].pc = "select"
  /\ LET id == req[s].appId
         r == IF WithdrawRows(id, req[s].userId) = {} THEN req[s]
              ELSE [req[s] EXCEPT !.application = apps[id].status]
     IN req' = [req EXCEPT ![s] =
          IF WithdrawRows(id, req[s].userId) = {}
          THEN Done(r, 404, "Aplicacion no encontrada")
          ELSE IF userType(req[s].userId) # "technician"
               THEN Done(r, 403, "Acceso denegado")
          ELSE IF NotPending(apps[id].status) THEN Done(r, 400, "Estado invalido")
          ELSE [r EXCEPT !.pc = "update"]]
  /\ UNCHANGED <<db, env, started, ok201>>

\* UPDATE project_applications SET status = "withdrawn" WHERE id = ?, then the
\* call of createApplicationStatusNotification: an unbound name throws a
\* ReferenceError, which the handler's catch answers with 500
WithdrawUpdate(s) ==
  /\ ~Responding
  /\ req[s].kind = "withdraw" /\ req[s].pc = "update"
  /\ apps' = [apps EXCEPT ![req[s].appId].status = "withdrawn"]
  /\ req' = [req EXCEPT ![s] =
       IF InScope("withdraw", "createApplicationStatusNotification")
       THEN [req[s] EXCEPT !.pc = "notify", !.wrote = TRUE]
       ELSE Done([req[s] EXCEPT !.wrote = TRUE], 500, "Error interno del servidor")]
  /\ UNCHANGED <<notifications, mails, env, started, ok201>>

(* --------- status-change notification of both PUT handlers ------------ *)
\* createApplicationStatusNotification(technician, project, title, status)
\* followed by res.json; the status handler passes application.technician_id
\* and the requested status, the withdraw handler req.user.userId and 'withdrawn'
NotifyStatusChange(s, insertOk) ==
  /\ ~Responding
  /\ req[s].kind \in {"status", "withdraw"} /\ req[s].pc = "notify"
  /\ InScope(req[s].kind, "createApplicationStatusNotification")
  /\ LET a == apps[req[s].appId]
         target == IF req[s].kind = "status" THEN a.technician_id ELSE req[s].userId
     IN /\ notifications' = CreateNotification(target, "application_status",
                              StatusTitle(req[s].status), a.project_id, insertOk)
        /\ req' = [req EXCEPT ![s] = Done(Notified(req[s], target, insertOk), 200, "")]
  /\ UNCHANGED <<apps, mails, env, started, ok201>>

(* ------------------------- storage failures --------------------------- *)
\* the awaited queries of the handlers that are not wrapped by the
\* notification writer or the mailer: when one rejects, the handler's catch
\* answers 500
QueryPcs ==
  {"cv", "project", "existing", "insert", "projectInfo", "techInfo",
   "techInfoThenThrow", "select", "update"}

QueryFails_BadRequest(s) ==
  /\ ~Responding
  /\ req[s].pc \in QueryPcs
  /\ req' = [req EXCEPT ![s] = Done(req[s], 400, "Datos invalidos")]
  /\ UNCHANGED <<db, env, started, ok201>>
QueryFails(s) ==
  /\ ~Responding
  /\ req[s].pc \in QueryPcs
  /\ req' = [req EXCEPT ![s] = Done(req[s], 500, "Error interno del servidor")]
  /\ UNCHANGED <<db, env, started, ok201>>

\* the response has been delivered; the slot serves the next request
Finish(s) ==
  /\ req[s].pc = "done"
  /\ req' = [req EXCEPT ![s] = Idle]
  /\ UNCHANGED <<db, env, started, ok201>>

(* --------------------------- environment ------------------------------ *)
\* POST /upload/cv by a technician:
\* UPDATE technician_profiles SET cv_file = ?, cv_uploaded = TRUE WHERE user_id = ?
\* (no row is changed when the technician has no profile row); multer has
\* stored the file in the uploads directory before the handler runs
UploadCv(u) ==
  /\ ~Responding
  /\ u \in Technicians /\ profile[u] = "nocv"
  /\ profile' = [profile EXCEPT ![u] = "cv"]
  /\ files' = files \cup {CvName(u)}
  /\ UNCHANGED <<db, companyProfile, projStatus, mailEnv, emailConfigured,
                 deleted, users, req, started, ok201>>

\* the project's owner moves it to another status (PUT /api/projects/:id)
ProjectStatusChange(p, st) ==
  /\ ~Responding
  /\ p \in Projects /\ st \in ProjectStatuses /\ projStatus[p] # st
  /\ projStatus' = [projStatus EXCEPT ![p] = st]
  /\ UNCHANGED <<db, profile, companyProfile, mailEnv, emailConfigured, files,
                 deleted, users, req, started, ok201>>

\* DELETE /upload/:filename: authenticateToken, then existsSync and unlinkSync
\* of path.join(UPLOAD_PATH, filename); nothing relates the file to the
\* requester and no table is touched
DeleteUpload_OwnerOnly(s, token, name) ==
  /\ ~Responding /\ req[s].kind = "idle"
  /\ started < MaxRequests
  /\ started' = started + 1
  /\ LET r == [Idle EXCEPT !.kind = "deleteUpload", !.userId = token,
                           !.filename = name]
         removed == Authenticated(token) /\ FileExists(<<UploadPath, name>>)
                      /\ name = CvName(token)
     IN /\ req' = [req EXCEPT ![s] =
             IF ~Authenticated(token) THEN Done(r, 401, "Token requerido")
             ELSE IF ~removed THEN Done(r, 404, "Archivo no encontrado")
             ELSE Done(r, 200, "")]
        /\ files' = IF removed THEN files \ {name} ELSE files
  /\ UNCHANGED <<db, profile, companyProfile, projStatus, mailEnv,
                 emailConfigured, deleted, users, ok201>>
DeleteUpload_ClearsProfile(s, token, name) ==
  /\ ~Responding /\ req[s].kind = "idle"
  /\ started < MaxRequests
  /\ started' = started + 1
  /\ LET r == [Idle EXCEPT !.kind = "deleteUpload", !.userId = token,
                           !.filename = name]
         removed == Authenticated(token) /\ FileExists(<<UploadPath, name>>)
     IN /\ req' = [req EXCEPT ![s] =
             IF ~Authenticated(token) THEN Done(r, 401, "Token requerido")
             ELSE IF ~removed THEN Done(r, 404, "Archivo no encontrado")
             ELSE Done(r, 200, "")]
        /\ files' = IF removed THEN files \ {name} ELSE files
        /\ profile' = [t \in Technicians |->
             IF removed /\ name = CvName(t) /\ profile[t] = "cv"
             THEN "nocv" ELSE profile[t]]
  /\ UNCHANGED <<db, companyProfile, projStatus, mailEnv,
                 emailConfigured, deleted, users, ok201>>
DeleteUpload(s, token, name) ==
  /\ ~Responding /\ req[s].kind = "idle"
  /\ started < MaxRequests
  /\ started' = started + 1
  /\ LET r == [Idle EXCEPT !.kind = "deleteUpload", !.userId = token,
                           !.filename = name]
         removed == Authenticated(token) /\ FileExists(<<UploadPath, name>>)
     IN /\ req' = [req EXCEPT ![s] =
             IF ~Authenticated(token) THEN Done(r, 401, "Token requerido")
             ELSE IF ~removed THEN Done(r, 404, "Archivo no encontrado")
             ELSE Done(r, 200, "")]
        /\ files' = IF removed THEN files \ {name} ELSE files
  /\ UNCHANGED <<db, profile, companyProfile, projStatus, mailEnv,
                 emailConfigured, deleted, users, ok201>>

(* ------------------------- POST /auth/register ------------------------ *)
\* the express-validator chain, the email query and the DNI test: a request
\* for an email that has a users row is refused, one without DNI too
StartRegister(s, t, valid, dni) ==
  /\ ~Responding /\ req[s].kind = "idle"
  /\ started < MaxRequests
  /\ started' = started + 1
  /\ LET r == [Idle EXCEPT !.kind = "register", !.userId = t]
     IN req' = [req EXCEPT ![s] =
          IF ~valid THEN Done(r, 400, "Datos invalidos")
          ELSE IF t \in users THEN Done(r, 400, "Email ya registrado")
          ELSE IF ~dni THEN Done(r, 400, "DNI requerido")
          ELSE [r EXCEPT !.pc = "insertUser"]]
  /\ UNCHANGED <<db, env, ok201>>

\* INSERT INTO users (...)
RegisterInsertUser(s) ==
  /\ ~Responding
  /\ req[s].kind = "register" /\ req[s].pc = "insertUser"
  /\ users' = users \cup {req[s].userId}
  /\ req' = [req EXCEPT ![s] = [req[s] EXCEPT !.pc = "insertProfile", !.wrote = TRUE]]
  /\ UNCHANGED <<db, profile, companyProfile, projStatus, mailEnv,
                 emailConfigured, files, deleted, started, ok201>>

\* INSERT INTO technician_profiles (user_id, dni): cv_uploaded gets its
\* default; when the insert rejects, the handler's catch answers 500 and the
\* users row stays
RegisterInsertProfile(s, insertOk) ==
  /\ ~Responding
  /\ req[s].kind = "register" /\ req[s].pc = "insertProfile"
  /\ IF insertOk
     THEN /\ profile' = [profile EXCEPT ![req[s].userId] = "nocv"]
          /\ req' = [req EXCEPT ![s] = [req[s] EXCEPT !.pc = "selectUser"]]
     ELSE /\ profile' = profile
          /\ req' = [req EXCEPT ![s] =
               Done(req[s], 500, "Error interno del servidor")]
  /\ UNCHANGED <<db, companyProfile, projStatus, mailEnv,
                 emailConfigured, files, deleted, users, started, ok201>>

\* jwt.sign, the SELECT of the new user and res.status(201)
RegisterRespond(s) ==
  /\ ~Responding
  /\ req[s].kind = "register" /\ req[s].pc = "selectUser"
  /\ req' = [req EXCEPT ![s] = Done(req[s], 201, "")]
  /\ UNCHANGED <<db, env, started, ok201>>

(* ------------------------ notifications router ----------------------- *)
\* what follows /notifications/ in the request's path
NotificationSegs == {"1", "2", "3", "read"}

\* the value the storage compares the id column with: the number a numeric
\* string denotes, 0 for a string that is no number
ToId(seg) ==
  CASE seg = "1" -> 1 [] seg = "2" -> 2 [] seg = "3" -> 3 [] OTHER -> 0

\* the DELETE routes in the order the router registers them
DeleteRoutes_BulkFirst == <<"/read", "/:id">>
DeleteRoutes == <<"/:id", "/read">>

\* a route pattern matches a one-segment path
Matches(pattern, seg) == pattern = "/:id" \/ pattern = "/" \o seg

\* express runs the first registered route that matches
Dispatch(routes, seg) ==
  LET matching == {k \in 1..Len(routes) : Matches(routes[k], seg)}
  IN routes[CHOOSE k \in matching : \A j \in matching : k <= j]

\* the rows the table holds
Live(i) == i \in 1..Len(notifications) /\ i \notin deleted

\* SELECT * FROM notifications WHERE id = ? AND user_id = ?
OwnNotification_AnyUser(seg, u) == {i \in 1..Len(notifications) : Live(i) /\ i = ToId(seg)}
OwnNotification(seg, u) ==
  {i \in 1..Len(notifications) :
     Live(i) /\ i = ToId(seg) /\ notifications[i].user_id = u}

\* DELETE FROM notifications WHERE user_id = ? AND is_read = TRUE
ReadNotifications(u) ==
  {i \in 1..Len(notifications) :
     Live(i) /\ notifications[i].user_id = u /\ notifications[i].is_read}

\* PUT /notifications/:id/read
MarkRead(s, token, seg) ==
  /\ ~Responding /\ req[s].kind = "idle"
  /\ started < MaxRequests
  /\ started' = started + 1
  /\ LET r == [Idle EXCEPT !.kind = "markRead", !.userId = token, !.seg = seg,
                           !.route = "/:id/read"]
         rows == OwnNotification(seg, token)
     IN IF ~Authenticated(token)
        THEN /\ req' = [req EXCEPT ![s] = Done(r, 401, "Token requerido")]
             /\ notifications' = notifications
        ELSE IF rows = {}
        THEN /\ req' = [req EXCEPT ![s] = Done(r, 404, "Notificacion no encontrada")]
             /\ notifications' = notifications
        ELSE /\ req' = [req EXCEPT ![s] = Done(r, 200, "")]
             /\ notifications' = [i \in 1..Len(notifications) |->
                  IF i \in rows THEN [notifications[i] EXCEPT !.is_read = TRUE]
                  ELSE notifications[i]]
  /\ UNCHANGED <<apps, mails, env, ok201>>

\* PUT /notifications/read-all:
\* UPDATE notifications SET is_read = TRUE WHERE user_id = ? AND is_read = FALSE
MarkAllRead(s, token) ==
  /\ ~Responding /\ req[s].kind = "idle"
  /\ started < MaxRequests
  /\ started' = started + 1
  /\ LET r == [Idle EXCEPT !.kind = "markAllRead", !.userId = token,
                           !.seg = "read-all", !.route = "/read-all"]
     IN IF ~Authenticated(token)
        THEN /\ req' = [req EXCEPT ![s] = Done(r, 401, "Token requerido")]
             /\ notifications' = notifications
        ELSE /\ req' = [req EXCEPT ![s] = Done(r, 200, "")]
             /\ notifications' = [i \in 1..Len(notifications) |->
                  IF Live(i) /\ notifications[i].user_id = token
                  THEN [notifications[i] EXCEPT !.is_read = TRUE]
                  ELSE notifications[i]]
  /\ UNCHANGED <<apps, mails, env, ok201>>

\* a DELETE /notifications/<seg> request: the route express dispatches it to
\* runs, either the handler of /:id (one row of the requester, by id) or the
\* handler of /read (all read rows of the requester)
DeleteNotification(s, token, seg) ==
  /\ ~Responding /\ req[s].kind = "idle"
  /\ started < MaxRequests
  /\ started' = started + 1
  /\ LET route == Dispatch(DeleteRoutes, seg)
         r == [Idle EXCEPT !.kind = "deleteNotification", !.userId = token,
                           !.seg = seg, !.route = route]
         rows == OwnNotification(seg, token)
     IN IF ~Authenticated(token)
        THEN /\ req' = [req EXCEPT ![s] = Done(r, 401, "Token requerido")]
             /\ deleted' = deleted
        ELSE IF route = "/read"
        THEN /\ req' = [req EXCEPT ![s] = Done(r, 200, "")]
             /\ deleted' = deleted \cup ReadNotifications(token)
        ELSE IF rows = {}
        THEN /\ req' = [req EXCEPT ![s] = Done(r, 404, "Notificacion no encontrada")]
             /\ deleted' = deleted
        ELSE /\ req' = [req EXCEPT ![s] = Done(r, 200, "")]
             /\ deleted' = deleted \cup rows
  /\ UNCHANGED <<db, profile, companyProfile, projStatus, mailEnv,
                 emailConfigured, files, users, ok201>>

(* --------------------------- specification ---------------------------- *)
\* no request is being served
Quiet == \A s \in Slots : req[s].kind = "idle"

\* the steps of the requests being served
Serve ==
  \/ \E s \in Slots : SubmitCheckCv(s)
  \/ \E s \in Slots : SubmitCheckProject(s)
  \/ \E s \in Slots : SubmitCheckExisting(s)
  \/ \E s \in Slots : SubmitInsert(s)
  \/ \E s \in Slots : SubmitProjectInfo(s)
  \/ \E s \in Slots : SubmitTechInfo(s)
  \/ \E s \in Slots, insertOk \in BOOLEAN : SubmitNotifyTechnician(s, insertOk)
  \/ \E s \in Slots, insertOk \in BOOLEAN : SubmitNotifyCompany(s, insertOk)
  \/ \E s \in Slots, sendOk \in BOOLEAN : SubmitMailConfirmation(s, sendOk)
  \/ \E s \in Slots, sendOk \in BOOLEAN : SubmitMailOperations(s, sendOk)
  \/ \E s \in Slots : StatusSelect(s)
  \/ \E s \in Slots : StatusUpdate(s)
  \/ \E s \in Slots : WithdrawSelect(s)
  \/ \E s \in Slots : WithdrawUpdate(s)
  \/ \E s \in Slots, insertOk \in BOOLEAN : NotifyStatusChange(s, insertOk)

\* the tables before any application exists; technician t1 has registered
\* and not yet uploaded a CV, t2's registration left no profile row
Fresh ==
  /\ apps = <<>>
  /\ notifications = <<>>
  /\ mails = <<>>
  /\ profile = [t \in Technicians |-> IF t = "t1" THEN "nocv" ELSE "missing"]
  /\ files = {}
  /\ deleted = {}
  /\ users = Users
  /\ ok201 = {}

\* the tables after t1 uploaded a CV, applied to project 1 while it was open
\* and was answered 201 with all four side effects done
Applied ==
  /\ apps = <<[project_id |-> 1, technician_id |-> "t1", status |-> "pending",
               open_at_insert |-> TRUE, deadline_at_insert |-> DeadlineOpen(1)]>>
  /\ notifications =
       <<[user_id |-> "t1", type |-> "job_application", title |-> "Aplicacion Enviada",
          related_id |-> 1, is_read |-> FALSE],
         [user_id |-> ProjectCompany(1), type |-> "new_application",
          title |-> "Nueva Aplicacion Recibida", related_id |-> 1, is_read |-> FALSE]>>
  /\ mails = IF emailConfigured
             THEN <<[template |-> "confirmation", to |-> "t1"],
                    [template |-> "job_application", to |-> OpsMailbox]>>
             ELSE <<>>
  /\ profile = [t \in Technicians |-> IF t = "t1" THEN "cv" ELSE "missing"]
  /\ files = {CvName("t1")}
  /\ deleted = {}
  /\ users = Users
  /\ ok201 = {<<1, "t1">>}

(* Spec: requests of every kind by every user, served one after another,   *)
(* with storage failures and a changing environment.                       *)
Init ==
  /\ mailEnv \in MailEnvs
  /\ emailConfigured = ValidateEmailConfig(mailEnv)
  /\ companyProfile = Companies
  /\ projStatus \in [Projects -> ProjectStatuses]
  /\ req = [s \in Slots |-> Idle]
  /\ started = 0
  /\ Fresh \/ Applied

\* one request at a time arrives, of any kind, by any caller
SubmitArrives ==
  \E token \in Users \cup {NoToken}, p \in ProjectIds, valid \in BOOLEAN :
    Quiet /\ StartSubmit(1, token, p, valid)

StatusArrives ==
  \E token \in Users \cup {NoToken}, id \in AppIds, st \in StatusInputs :
    Quiet /\ StartStatus(1, token, id, st)

WithdrawArrives ==
  \E token \in Users \cup {NoToken}, id \in AppIds :
    Quiet /\ StartWithdraw(1, token, id)

Next ==
  \/ SubmitArrives
  \/ StatusArrives
  \/ WithdrawArrives
  \/ Serve
  \/ \E s \in Slots : QueryFails(s)
  \/ \E s \in Slots : Finish(s)
  \/ \E u \in Technicians : UploadCv(u)
  \/ \E p \in Projects, st \in ProjectStatuses : ProjectStatusChange(p, st)

Spec == Init /\ [][Next]_vars

(* SpecRace: two slots serve concurrently the requests of one technician   *)
(* and one company about project 1; every await is an interleaving point.  *)
InitRace ==
  /\ mailEnv \in MailEnvs
  /\ emailConfigured = ValidateEmailConfig(mailEnv)
  /\ companyProfile = Companies
  /\ projStatus = [p \in Projects |-> "open"]
  /\ req = [s \in Slots |-> Idle]
  /\ started = 0
  /\ Fresh \/ Applied

\* a new request is served by the lowest free slot
FreeSlot(s) == req[s].kind = "idle" /\ \A q \in Slots : q < s => req[q].kind # "idle"

SubmitRaces == \E s \in Slots : FreeSlot(s) /\ StartSubmit(s, "t1", 1, TRUE)

StatusRaces ==
  \E s \in Slots, st \in {"accepted", "rejected"} :
    FreeSlot(s) /\ StartStatus(s, "c1", 1, st)

WithdrawRaces == \E s \in Slots : FreeSlot(s) /\ StartWithdraw(s, "t1", 1)

NextRace ==
  \/ \E u \in Technicians : UploadCv(u)
  \/ SubmitRaces
  \/ StatusRaces
  \/ WithdrawRaces
  \/ Serve
  \/ \E s \in Slots : Finish(s)

SpecRace == InitRace /\ [][NextRace]_vars

(* SpecUpload: the uploads directory. Technicians upload their CV, any     *)
(* caller asks to delete files of the directory, technicians apply.        *)
InitUpload ==
  /\ mailEnv \in MailEnvs
  /\ emailConfigured = ValidateEmailConfig(mailEnv)
  /\ companyProfile = Companies
  /\ projStatus = [p \in Projects |-> "open"]
  /\ req = [s \in Slots |-> Idle]
  /\ started = 0
  /\ Fresh \/ Applied

\* the steps of a POST /applications request
ServeSubmit ==
  \/ \E s \in Slots : SubmitCheckCv(s)
  \/ \E s \in Slots : SubmitCheckProject(s)
  \/ \E s \in Slots : SubmitCheckExisting(s)
  \/ \E s \in Slots : SubmitInsert(s)
  \/ \E s \in Slots : SubmitProjectInfo(s)
  \/ \E s \in Slots : SubmitTechInfo(s)
  \/ \E s \in Slots, insertOk \in BOOLEAN : SubmitNotifyTechnician(s, insertOk)
  \/ \E s \in Slots, insertOk \in BOOLEAN : SubmitNotifyCompany(s, insertOk)
  \/ \E s \in Slots, sendOk \in BOOLEAN : SubmitMailConfirmation(s, sendOk)
  \/ \E s \in Slots, sendOk \in BOOLEAN : SubmitMailOperations(s, sendOk)

DeleteUploadArrives ==
  \E token \in Users \cup {NoToken}, name \in FileNames :
    Quiet /\ DeleteUpload(1, token, name)

TechnicianApplies ==
  \E u \in Technicians, p \in Projects : Quiet /\ StartSubmit(1, u, p, TRUE)

NextUpload ==
  \/ \E u \in Technicians : UploadCv(u)
  \/ DeleteUploadArrives
  \/ TechnicianApplies
  \/ ServeSubmit
  \/ \E s \in Slots : Finish(s)

SpecUpload == InitUpload /\ [][NextUpload]_vars

(* SpecNotifications: the notifications router, on the rows that exist     *)
(* after t1 applied to project 1 and company c1 accepted the application;  *)
(* each row may have been read already.                                    *)
InitNotifications ==
  /\ mailEnv = [EMAIL_USER |-> "set", EMAIL_PASS |-> "set"]
  /\ emailConfigured = ValidateEmailConfig(mailEnv)
  /\ companyProfile = Companies
  /\ projStatus = [p \in Projects |-> "open"]
  /\ req = [s \in Slots |-> Idle]
  /\ started = 0
  /\ apps = <<[NewApplication(1, "t1") EXCEPT !.status = "accepted"]>>
  /\ \E read \in [1..3 -> BOOLEAN] :
       notifications =
         [i \in 1..3 |->
            [(<<[user_id |-> "t1", type |-> "job_application",
                 title |-> "Aplicacion Enviada", related_id |-> 1, is_read |-> FALSE],
                [user_id |-> ProjectCompany(1), type |-> "new_application",
                 title |-> "Nueva Aplicacion Recibida", related_id |-> 1,
                 is_read |-> FALSE],
                [user_id |-> "t1", type |-> "application_status",
                 title |-> StatusTitle("accepted"), related_id |-> 1,
                 is_read |-> FALSE]>>)[i] EXCEPT !.is_read = read[i]]]
  /\ mails = <<[template |-> "confirmation", to |-> "t1"],
               [template |-> "job_application", to |-> OpsMailbox]>>
  /\ profile = [t \in Technicians |-> IF t = "t1" THEN "cv" ELSE "missing"]
  /\ files = {CvName("t1")}
  /\ deleted = {}
  /\ users = Users
  /\ ok201 = {<<1, "t1">>}

MarkReadArrives ==
  \E token \in Users \cup {NoToken}, seg \in NotificationSegs \ {"read"} :
    Quiet /\ MarkRead(1, token, seg)

MarkAllReadArrives ==
  \E token \in Users \cup {NoToken} : Quiet /\ MarkAllRead(1, token)

DeleteNotificationArrives ==
  \E token \in Users \cup {NoToken}, seg \in NotificationSegs :
    Quiet /\ DeleteNotification(1, token, seg)

NextNotifications ==
  \/ MarkReadArrives
  \/ MarkAllReadArrives
  \/ DeleteNotificationArrives
  \/ \E s \in Slots : Finish(s)

SpecNotifications == InitNotifications /\ [][NextNotifications]_vars

(* SpecRegister: technicians register, upload their CV and apply; at the   *)
(* start only the companies have a users row.                              *)
InitRegister ==
  /\ mailEnv = [EMAIL_USER |-> "", EMAIL_PASS |-> ""]
  /\ emailConfigured = ValidateEmailConfig(mailEnv)
  /\ companyProfile = Companies
  /\ projStatus = [p \in Projects |-> "open"]
  /\ req = [s \in Slots |-> Idle]
  /\ started = 0
  /\ apps = <<>> /\ notifications = <<>> /\ mails = <<>>
  /\ profile = [t \in Technicians |-> "missing"]
  /\ files = {} /\ deleted = {}
  /\ users = Companies
  /\ ok201 = {}

RegisterArrives ==
  \E t \in Technicians, valid \in BOOLEAN, dni \in BOOLEAN :
    Quiet /\ StartRegister(1, t, valid, dni)

RegisteredApplies ==
  \E u \in Technicians \cup {NoToken}, p \in Projects :
    Quiet /\ StartSubmit(1, u, p, TRUE)

NextRegister ==
  \/ RegisterArrives
  \/ \E s \in Slots : RegisterInsertUser(s)
  \/ \E s \in Slots, insertOk \in BOOLEAN : RegisterInsertProfile(s, insertOk)
  \/ \E s \in Slots : RegisterRespond(s)
  \/ \E u \in Technicians : UploadCv(u)
  \/ RegisteredApplies
  \/ \E s \in Slots : SubmitCheckCv(s)
  \/ \E s \in Slots : Finish(s)

SpecRegister == InitRegister /\ [][NextRegister]_vars

(* SpecLookup: technician t1 applies and applies again while company c2,   *)
(* the owner of project 2, has no company_profiles row and queries may     *)
(* fail.                                                                   *)
InitLookup ==
  /\ mailEnv = [EMAIL_USER |-> "set", EMAIL_PASS |-> "set"]
  /\ emailConfigured = ValidateEmailConfig(mailEnv)
  /\ companyProfile = {"c1"}
  /\ projStatus = [p \in Projects |-> "open"]
  /\ req = [s \in Slots |-> Idle]
  /\ started = 0
  /\ Fresh \/ Applied

NextLookup ==
  \/ \E u \in Technicians : UploadCv(u)
  \/ TechnicianApplies
  \/ ServeSubmit
  \/ \E s \in Slots : QueryFails(s)
  \/ \E s \in Slots : Finish(s)

SpecLookup == InitLookup /\ [][NextLookup]_vars

TypeOK ==
  /\ \A i \in 1..Len(apps) : apps[i].status \in AppStatuses
  /\ started \in 0..MaxRequests

(* ------------------------------ claims -------------------------------- *)
Pair(i) == <<apps[i].project_id, apps[i].technician_id>>
Success(r) == r.pc = "done" /\ r.resp.code \in {200, 201}
\* a well-formed call all of whose queries were answered
Answered(r) == r.pc = "done" /\ r.resp.code # 500 /\ r.resp.error # "Datos invalidos"

\* C1: in every reachable state there is at most one Application row per
\* (project, technician) pair, also when two submissions for the same pair
\* interleave between the existence check and the insert.
C1_OneRowPerPair ==
  \A i, j \in 1..Len(apps) : i # j => Pair(i) # Pair(j)

\* C2: a withdraw by the application's own technician on a pending
\* application, once its UPDATE has run, responds 200, leaves the status
\* withdrawn and has created exactly one Notification, for that technician.
C2_WithdrawPendingSucceeds ==
  \A s \in Slots :
    (req[s].kind = "withdraw" /\ req[s].pc = "done" /\ req[s].wrote) =>
      /\ req[s].resp.code = 200
      /\ apps[req[s].appId].status = "withdrawn"
      /\ req[s].notified = <<req[s].userId>>

\* C3: a withdraw by the owning technician that selects an application whose
\* status is accepted, rejected or withdrawn is answered 400 "Estado invalido"
\* at once, has written nothing, leaves the status as read and has created no
\* Notification.
C3_WithdrawOnlyPending ==
  \A s \in Slots :
    (req[s].kind = "withdraw" /\ req[s].application \in AppStatuses \ {"pending"}) =>
      /\ req[s].pc = "done"
      /\ req[s].resp = Resp(400, "Estado invalido")
      /\ ~req[s].wrote
      /\ req[s].notified = <<>>
      /\ apps[req[s].appId].status = req[s].application

\* C3 witness: a second withdraw right after a first one is refused
C3_Witness ==
  \E s \in Slots :
    /\ req[s].kind = "withdraw" /\ req[s].pc = "done"
    /\ req[s].application = "withdrawn"
    /\ req[s].resp.code = 400

\* C4: a submission by a technician whose profile row is missing or has
\* cv_uploaded = false is answered 400 "CV requerido" at once and has created
\* no Application row.
C4_CvRequired ==
  \A s \in Slots :
    (req[s].kind = "submit" /\ req[s].seenProfile \in {"missing", "nocv"}) =>
      /\ req[s].pc = "done"
      /\ req[s].resp = Resp(400, "CV requerido")
      /\ ~req[s].wrote /\ req[s].insertId = 0
      /\ \A i \in 1..Len(apps) : apps[i].technician_id # req[s].userId

C4_Witness ==
  \E s \in Slots :
    /\ req[s].kind = "submit" /\ req[s].pc = "done"
    /\ req[s].seenProfile = "nocv"
    /\ req[s].resp = Resp(400, "CV requerido")

\* C5 as stated: once a pair has been answered 201, every later well-formed
\* submission of the same pair is answered 400 "Ya aplicaste", whatever
\* happened in between.
C5_LaterCallConflicts ==
  \A s \in Slots :
    (req[s].kind = "submit" /\ req[s].after201 /\ Answered(req[s])) =>
      req[s].resp = Resp(400, "Ya aplicaste")

\* C5 amended: once a pair has been answered 201, every later well-formed
\* submission of the same pair fails and creates no row: with 400 "Ya aplicaste"
\* when the project is still open, with 404 when it is not, whatever the
\* status of the existing application.
C5_LaterCallFails ==
  \A s \in Slots :
    (req[s].kind = "submit" /\ req[s].after201) =>
      /\ ~req[s].wrote
      /\ Answered(req[s]) =>
           /\ req[s].seenProject = "open" => req[s].resp = Resp(400, "Ya aplicaste")
           /\ req[s].seenProject # "open" => req[s].resp = Resp(404, "Proyecto no encontrado")

\* C5 witness: the second call is refused although the application has left pending
C5_Witness ==
  \E s \in Slots :
    /\ req[s].kind = "submit" /\ req[s].after201
    /\ req[s].resp = Resp(400, "Ya aplicaste")
    /\ \E i \in 1..Len(apps) :
         /\ Pair(i) = <<req[s].projectId, req[s].userId>>
         /\ apps[i].status # "pending"

\* C6: a submission whose project query finds no row (no such project, or a
\* status other than open) is answered 404 at once and has written nothing:
\* no Application row, no Notification row, no mail-send attempt.
C6_ClosedProjectNotFound ==
  \A s \in Slots :
    (req[s].kind = "submit" /\ req[s].seenProject \notin {"", "open"}) =>
      /\ req[s].pc = "done"
      /\ req[s].resp = Resp(404, "Proyecto no encontrado")
      /\ ~req[s].wrote /\ req[s].insertId = 0
      /\ req[s].notified = <<>> /\ ~req[s].notifFailed
      /\ req[s].mailAttempts = 0

C6_Witness ==
  \E s \in Slots :
    /\ req[s].kind = "submit" /\ req[s].pc = "done"
    /\ req[s].seenProject = "completed"
    /\ req[s].resp.code = 404

\* C7: every Application row was created while its project's status was open
\* and its application_deadline had not passed.
C7_CreatedWhileOpenBeforeDeadline ==
  \A i \in 1..Len(apps) : apps[i].open_at_insert /\ apps[i].deadline_at_insert

\* C8: an updateStatus request carrying pending or withdrawn never changes an
\* application's status.
C8_OnlyAcceptedOrRejected ==
  \A s \in Slots :
    (req[s].kind = "status" /\ req[s].status \in {"pending", "withdrawn"}) =>
      ~req[s].wrote

\* C9: a request whose primary write has run and whose step other than a
\* post-insert lookup ends it is answered with its success status (201 for
\* submitApplication, 200 for updateStatus and withdraw).
C9_SideEffectsNeverFail ==
  [][\A s \in Slots :
       (/\ req'[s].pc = "done" /\ req[s].pc # "done"
        /\ req'[s].wrote
        /\ req[s].pc \notin {"projectInfo", "techInfo", "techInfoThenThrow"}) =>
         req'[s].resp.code = IF req'[s].kind = "submit" THEN 201 ELSE 200]_vars

\* C10 as stated: a submission answered 201 has created exactly two
\* Notification rows, one for the technician and one for the owning company,
\* and made at most two mail-send attempts, none when the mailer is unconfigured.
C10_ExactlyTwoNotifications ==
  \A s \in Slots :
    (req[s].kind = "submit" /\ req[s].pc = "done" /\ req[s].resp.code = 201) =>
      /\ req[s].notified = <<req[s].userId, ProjectCompany(req[s].projectId)>>
      /\ req[s].mailAttempts <= 2
      /\ ~emailConfigured => (req[s].mailAttempts = 0 /\ mails = <<>>)

\* C10 amended: a submission answered 201 has created at most two Notification
\* rows, the technician's and then the owning company's, both of them when no
\* notification insert failed, and made at most two mail-send attempts, none
\* when the mailer is unconfigured.
C10_AtMostTwoNotifications ==
  \A s \in Slots :
    (req[s].kind = "submit" /\ req[s].pc = "done" /\ req[s].resp.code = 201) =>
      LET both == <<req[s].userId, ProjectCompany(req[s].projectId)>>
      IN /\ req[s].notified \in {<<>>, <<both[1]>>, <<both[2]>>, both}
         /\ ~req[s].notifFailed => req[s].notified = both
         /\ req[s].mailAttempts <= 2
         /\ ~emailConfigured => (req[s].mailAttempts = 0 /\ mails = <<>>)

\* C10 witness: 201 with both rows written and an unconfigured mailer
C10_Witness ==
  \E s \in Slots :
    /\ req[s].kind = "submit" /\ req[s].resp.code = 201
    /\ ~emailConfigured /\ req[s].mailAttempts = 0
    /\ Len(req[s].notified) = 2 /\ Len(notifications) >= 2

C12_FirstFailureWins ==
  \A s \in Slots :
    (req[s].kind = "submit" /\ Answered(req[s]) /\ Authenticated(req[s].userId)) =>
      req[s].resp =
        IF userType(req[s].userId) # "technician" THEN Resp(403, "Acceso denegado")
        ELSE IF CvRequired(TechnicianProfileRows(req[s].userId))
             THEN Resp(400, "CV requerido")
        ELSE IF req[s].seenProject # "open" THEN Resp(404, "Proyecto no encontrado")
        ELSE IF req[s].seenExisting = "found" THEN Resp(400, "Ya aplicaste")
        ELSE Resp(201, "")

\* C12 witness: the project is not open and the pair has a row already; the
\* answer is the project's failure
C12_Witness ==
  \E s \in Slots :
    /\ req[s].kind = "submit" /\ req[s].pc = "done"
    /\ req[s].resp = Resp(404, "Proyecto no encontrado")
    /\ OpenProjectRows(req[s].projectId) = {}
    /\ ExistingApplication(req[s].projectId, req[s].userId) # {}

\* C13: an updateStatus request that selected an existing application and
\* whose requester is not a company, or is a company that does not own the
\* application's project, is answered 403 at once, has not written, has
\* created no Notification and leaves the application's status as it read it.
C13_StatusForbidden ==
  \A s \in Slots :
    (/\ req[s].kind = "status" /\ req[s].application # ""
     /\ \/ userType(req[s].userId) # "company"
        \/ ProjectCompany(apps[req[s].appId].project_id) # req[s].userId) =>
      /\ req[s].pc = "done"
      /\ req[s].resp = Resp(403, "Acceso denegado")
      /\ ~req[s].wrote
      /\ req[s].notified = <<>> /\ ~req[s].notifFailed
      /\ apps[req[s].appId].status = req[s].application

\* C13 witness: a company that does not own the project is refused
C13_Witness ==
  \E s \in Slots :
    /\ req[s].kind = "status" /\ req[s].pc = "done"
    /\ userType(req[s].userId) = "company"
    /\ req[s].application = "pending"
    /\ req[s].status = "accepted"
    /\ req[s].resp.code = 403

\* the row createApplicationStatusNotification writes for a status
StatusRow(u, p, status) ==
  [user_id |-> u, type |-> "application_status",
   title |-> IF status = "accepted" THEN "Aplicacion Aceptada"
             ELSE IF status = "rejected" THEN "Aplicacion Rechazada"
             ELSE IF status = "withdrawn" THEN "Aplicacion Retirada"
             ELSE "Estado de Aplicacion Actualizado",
   related_id |-> p, is_read |-> FALSE]

\* C14 as stated: an updateStatus answered 200 has persisted the requested
\* status, has created exactly one Notification, addressed to the
\* application's technician and titled by the template of the new status, and
\* has made no mail-send attempt.
C14_ExactlyOneNotification ==
  \A s \in Slots :
    (req[s].kind = "status" /\ req[s].pc = "done" /\ req[s].resp.code = 200) =>
      LET a == apps[req[s].appId]
      IN /\ req[s].wrote /\ a.status = req[s].status
         /\ ProjectCompany(a.project_id) = req[s].userId
         /\ req[s].notified = <<a.technician_id>>
         /\ notifications # <<>>
         /\ notifications[Len(notifications)] =
              StatusRow(a.technician_id, a.project_id, req[s].status)
         /\ req[s].mailAttempts = 0

\* C14 amended: an updateStatus answered 200 was made by the owning company,
\* has persisted the requested status, has created at most one Notification
\* and, when the notification insert did not fail, exactly one, addressed to
\* the application's technician and titled by the template of the new status;
\* it has made no mail-send attempt.
C14_AtMostOneNotification ==
  \A s \in Slots :
    (req[s].kind = "status" /\ req[s].pc = "done" /\ req[s].resp.code = 200) =>
      LET a == apps[req[s].appId]
      IN /\ req[s].wrote /\ a.status = req[s].status
         /\ ProjectCompany(a.project_id) = req[s].userId
         /\ req[s].notified \in {<<>>, <<a.technician_id>>}
         /\ req[s].notifFailed <=> req[s].notified = <<>>
         /\ ~req[s].notifFailed =>
              /\ notifications # <<>>
              /\ notifications[Len(notifications)] =
                   StatusRow(a.technician_id, a.project_id, req[s].status)
         /\ req[s].mailAttempts = 0

\* C14 witness: the owner accepts a pending application and the technician
\* gets the "accepted" notification
C14_Witness ==
  \E s \in Slots :
    /\ req[s].kind = "status" /\ req[s].pc = "done" /\ req[s].resp.code = 200
    /\ req[s].status = "accepted" /\ req[s].application = "pending"
    /\ req[s].notified = <<apps[req[s].appId].technician_id>>
    /\ notifications[Len(notifications)].title = "Aplicacion Aceptada"

\* C15: an authenticated withdraw whose query was answered and whose requester
\* is not the application's technician (another technician or any company),
\* or whose id names no application, is answered 404, has not written and
\* has created no Notification; no withdraw is ever answered 403.
C15_WithdrawHidden ==
  \A s \in Slots :
    req[s].kind = "withdraw" =>
      /\ req[s].resp.code # 403
      /\ (/\ req[s].pc = "done" /\ req[s].resp.code # 500
          /\ Authenticated(req[s].userId)
          /\ \/ req[s].appId \notin 1..Len(apps)
             \/ apps[req[s].appId].technician_id # req[s].userId) =>
           /\ req[s].resp = Resp(404, "Aplicacion no encontrada")
           /\ req[s].application = "" /\ ~req[s].wrote
           /\ req[s].notified = <<>> /\ ~req[s].notifFailed

\* C15 witness: a company asks to withdraw an existing pending application
C15_Witness ==
  \E s \in Slots :
    /\ req[s].kind = "withdraw" /\ req[s].pc = "done"
    /\ userType(req[s].userId) = "company"
    /\ req[s].appId \in 1..Len(apps)
    /\ apps[req[s].appId].status = "pending"
    /\ req[s].resp.code = 404

\* C16: whenever a step changes the status of an existing Application row,
\* the step is the UPDATE of a request whose requester is the row's technician
\* or the company that owns the row's project.
C16_OnlyOwnersMutate ==
  [][\A i \in 1..Len(apps) :
       apps'[i].status # apps[i].status =>
         \E s \in Slots :
           /\ req[s].pc = "update" /\ req[s].appId = i /\ req'[s].wrote
           /\ req[s].userId \in {apps[i].technician_id,
                                 ProjectCompany(apps[i].project_id)}]_vars

\* C16 witness: the owning company's UPDATE has changed the status
C16_Witness ==
  \E s \in Slots :
    /\ req[s].kind = "status" /\ req[s].pc = "notify" /\ req[s].wrote
    /\ req[s].userId = ProjectCompany(apps[req[s].appId].project_id)
    /\ apps[req[s].appId].status # req[s].application

\* C17: the step that ends a submitApplication, updateStatus or withdraw
\* request with 400, 403 or 404 changes no Application row, no Notification
\* row and makes no mail-send attempt, and no earlier step of that request
\* wrote an Application row, tried a Notification insert or a mail send.
C17_ErrorsWriteNothing ==
  [][\A s \in Slots :
       (/\ req'[s].pc = "done" /\ req[s].pc # "done"
        /\ req'[s].resp.code \in {400, 403, 404}) =>
         /\ db' = db
         /\ ~req'[s].wrote /\ req'[s].insertId = 0
         /\ req'[s].notified = <<>> /\ ~req'[s].notifFailed
         /\ req'[s].mailAttempts = 0]_vars

\* C17 witness: a duplicate submission is refused while the tables hold the
\* first application and its notifications
C17_Witness ==
  \E s \in Slots :
    /\ req[s].kind = "submit" /\ req[s].pc = "done"
    /\ req[s].resp = Resp(400, "Ya aplicaste")
    /\ ~req[s].wrote /\ req[s].notified = <<>> /\ req[s].mailAttempts = 0
    /\ Len(apps) = 1 /\ Len(notifications) = 2

\* C18: every step of a submitApplication request that writes a Notification
\* row, tries a Notification insert or makes a mail-send attempt is taken
\* after the request's INSERT: the Application row it inserted is in the table.
C18_InsertPrecedesSideEffects ==
  [][\A s \in Slots :
       (/\ req[s].kind = "submit"
        /\ \/ req'[s].notified # req[s].notified
           \/ req'[s].notifFailed # req[s].notifFailed
           \/ req'[s].mailAttempts # req[s].mailAttempts
           \/ notifications' # notifications
           \/ mails' # mails) =>
         /\ req[s].wrote
         /\ req[s].insertId \in 1..Len(apps)
         /\ Pair(req[s].insertId) = <<req[s].projectId, req[s].userId>>]_vars

\* C18 witness: the first side effect has been done, the row is in the table
C18_Witness ==
  \E s \in Slots :
    /\ req[s].kind = "submit" /\ req[s].pc = "notifyCompany"
    /\ req[s].notified = <<req[s].userId>>
    /\ req[s].wrote /\ req[s].insertId = Len(apps)
    /\ req[s].mailAttempts = 0

\* C19: when EMAIL_USER or EMAIL_PASS is absent at startup, the mail
\* transport is never contacted, every call a request made of
\* sendApplicationConfirmationEmail and sendJobApplicationEmail returned the
\* not-configured result, and a request that has called the mailer is
\* answered 201.
C19_UnconfiguredMailerShortCircuits ==
  (mailEnv.EMAIL_USER = "" \/ mailEnv.EMAIL_PASS = "") =>
    /\ mails = <<>>
    /\ \A s \in Slots :
         /\ req[s].mailAttempts = 0
         /\ \A k \in 1..Len(req[s].mailResults) :
              req[s].mailResults[k] = "not_configured"
         /\ (req[s].pc = "done" /\ req[s].mailResults # <<>>) =>
              (req[s].resp.code = 201 /\ Len(req[s].mailResults) = 2)

\* C19 witness: only the password is absent; both calls returned without a send
C19_Witness ==
  \E s \in Slots :
    /\ mailEnv.EMAIL_USER # "" /\ mailEnv.EMAIL_PASS = ""
    /\ req[s].kind = "submit" /\ req[s].resp.code = 201
    /\ req[s].mailResults = <<"not_configured", "not_configured">>
    /\ mails = <<>>

\* C20: every call of createNotification returns to its caller: when the
\* INSERT failed, a failure indicator, the table being unchanged; when it
\* succeeded, the id of the row it appended.
C20_CreateNeverRaises ==
  [][\A s \in Slots :
       Len(req'[s].notifResults) > Len(req[s].notifResults) =>
         LET res == req'[s].notifResults[Len(req'[s].notifResults)]
         IN /\ ~res.raised
            /\ Len(req'[s].notifResults) = Len(req[s].notifResults) + 1
            /\ res.success =>
                 /\ Len(notifications') = Len(notifications) + 1
                 /\ res.notificationId = Len(notifications')
                 /\ SubSeq(notifications', 1, Len(notifications)) = notifications
                 /\ req'[s].notified =
                      Append(req[s].notified, notifications'[res.notificationId].user_id)
            /\ ~res.success =>
                 /\ notifications' = notifications
                 /\ res.notificationId = 0
                 /\ req'[s].notifFailed]_vars

\* C20 witness: of the two calls of one submission the first failed and the
\* second returned the id of the new row
C20_Witness ==
  \E s \in Slots :
    /\ req[s].kind = "submit" /\ Len(req[s].notifResults) = 2
    /\ ~req[s].notifResults[1].success /\ req[s].notifResults[1].notificationId = 0
    /\ req[s].notifResults[2].success
    /\ req[s].notifResults[2].notificationId = Len(notifications)
    /\ notifications[Len(notifications)].user_id = ProjectCompany(req[s].projectId)

\* C21: a submission whose operations email is sent with the path of a CV
\* file that does not exist gets a failed send, reported to the handler as a
\* not-delivered result, and is answered 201.
C21_MissingAttachment ==
  \A s \in Slots :
    (req[s].kind = "submit" /\ req[s].attachment = "missing") =>
      /\ req[s].pc = "done" /\ req[s].resp = Resp(201, "")
      /\ Len(req[s].mailResults) = 2 /\ req[s].mailResults[2] = "failed"
      /\ req[s].mailFailed /\ req[s].mailAttempts = 2
      /\ mails # <<>> /\ mails[Len(mails)].template = "job_application"

\* C21 witness: the CV file was deleted from the uploads directory before
\* the technician applied
C21_Witness ==
  \E s \in Slots :
    /\ req[s].kind = "submit" /\ req[s].resp.code = 201
    /\ req[s].attachment = "missing"
    /\ CvName(req[s].userId) \notin files
    /\ req[s].mailResults[2] = "failed"

\* C28: no step takes a technician's cv_uploaded from true back to false or
\* changes the cv_file that goes with it, the deletion of the uploaded file
\* included; a submission whose cv query runs after the file is gone still
\* passes the CV test.
C28_CvUploadedNeverReverts ==
  [][/\ \A t \in Technicians :
          profile[t] = "cv" => (profile'[t] = "cv" /\ CvFile(t)' = CvFile(t))
     /\ \A s \in Slots :
          (/\ req[s].kind = "submit" /\ req[s].pc = "cv"
           /\ req'[s].pc # "cv" /\ profile[req[s].userId] = "cv") =>
            req'[s].pc = "project"]_vars

\* C28 witness: the CV file of a technician has been deleted and the
\* technician's later application has passed the CV test and been inserted
C28_Witness ==
  \E s \in Slots :
    /\ req[s].kind = "submit" /\ req[s].seenProfile = "cv" /\ req[s].wrote
    /\ CvName(req[s].userId) \notin files
    /\ profile[req[s].userId] = "cv"
    /\ CvFile(req[s].userId) = FileUrl(CvName(req[s].userId))

\* C29: a DELETE /upload/:filename request from any authenticated user that
\* names an existing file removes that file and only that file and is
\* answered 200, whoever uploaded it; one that names no file is answered 404
\* and one without a valid token 401, both leaving the directory as it was.
C29_DeleteOnlyAuthenticates ==
  [][\A s \in Slots :
       (req'[s].kind = "deleteUpload" /\ req[s].kind = "idle") =>
         LET r == req'[s]
         IN /\ r.pc = "done"
            /\ IF r.userId \notin Users
               THEN r.resp.code = 401 /\ files' = files
               ELSE IF r.filename \in files
                    THEN r.resp.code = 200 /\ files' = files \ {r.filename}
                    ELSE r.resp.code = 404 /\ files' = files
            /\ db' = db /\ profile' = profile]_vars

\* C29 witness: a company has deleted a technician's CV file
C29_Witness ==
  \E s \in Slots, t \in Technicians :
    /\ req[s].kind = "deleteUpload" /\ req[s].resp.code = 200
    /\ userType(req[s].userId) = "company"
    /\ req[s].filename = CvName(t) /\ profile[t] = "cv"
    /\ CvName(t) \notin files

\* C22: a step that marks a Notification row read or deletes it is the
\* request of the row's user_id; PUT /notifications/:id/read and
\* DELETE /notifications/:id by another authenticated user on an existing row
\* are answered 404 and change nothing; PUT /notifications/read-all changes
\* only rows of the requester.
C22_OnlyTargetUser ==
  [][/\ \A i \in 1..Len(notifications) :
          (/\ Live(i)
           /\ \/ i \in deleted'
              \/ notifications'[i] # notifications[i]) =>
            \E s \in Slots :
              /\ req[s].kind = "idle" /\ req'[s].pc = "done"
              /\ req'[s].userId = notifications[i].user_id
     /\ \A s \in Slots :
          (/\ req[s].kind = "idle"
           /\ req'[s].kind \in {"markRead", "deleteNotification"}
           /\ Authenticated(req'[s].userId)
           /\ Live(ToId(req'[s].seg))
           /\ notifications[ToId(req'[s].seg)].user_id # req'[s].userId) =>
            /\ req'[s].resp = Resp(404, "Notificacion no encontrada")
            /\ notifications' = notifications /\ deleted' = deleted]_vars

\* C22 witness: a company has asked to delete a technician's notification
C22_Witness ==
  \E s \in Slots :
    /\ req[s].kind = "deleteNotification" /\ req[s].pc = "done"
    /\ userType(req[s].userId) = "company"
    /\ Live(ToId(req[s].seg))
    /\ notifications[ToId(req[s].seg)].user_id \in Technicians
    /\ req[s].resp.code = 404

C23_OneProfilePerTechnician ==
  \A t \in Technicians :
    (\A s \in Slots : ~(req[s].kind = "register" /\ req[s].userId = t)) =>
      (t \in users <=> profile[t] # "missing")

\* C24: the UPDATE of a withdraw request never changes to withdrawn an
\* application whose status is accepted or rejected at that moment, also
\* when an updateStatus request on the same application runs between the
\* withdraw's query and its UPDATE.
C24_TerminalUnderInterleaving ==
  [][\A s \in Slots :
       (/\ req[s].kind = "withdraw" /\ req[s].pc = "update"
        /\ apps[req[s].appId].status \in {"accepted", "rejected"}) =>
         apps'[req[s].appId].status = apps[req[s].appId].status]_vars

\* C25: an updateStatus request of the owning company with a status the
\* validator accepts, whose queries are answered, is answered 200 and has
\* persisted the requested status whatever status the application had:
\* pending, accepted, rejected or withdrawn.
C25_AnySourceStatus ==
  \A s \in Slots :
    (/\ req[s].kind = "status" /\ Answered(req[s])
     /\ req[s].application \in AppStatuses
     /\ req[s].userId = ProjectCompany(apps[req[s].appId].project_id)) =>
      /\ req[s].resp = Resp(200, "")
      /\ req[s].wrote
      /\ apps[req[s].appId].status = req[s].status

\* C25 witness: a withdrawn application has been set to accepted
C25_Witness ==
  \E s \in Slots :
    /\ req[s].kind = "status" /\ req[s].pc = "done"
    /\ req[s].application = "withdrawn" /\ req[s].status = "accepted"
    /\ req[s].resp.code = 200
    /\ apps[req[s].appId].status = "accepted"

\* C26: a submission answered 500 after its INSERT leaves its row in the
\* table and has produced no notification and no mail; a later well-formed
\* submission of a pair that has a row, whose queries are answered, is
\* answered 400 "Ya aplicaste" and inserts nothing.
C26_FailureAfterInsert ==
  \A s \in Slots :
    /\ (req[s].kind = "submit" /\ req[s].pc = "done" /\ req[s].wrote
        /\ req[s].resp.code = 500) =>
         /\ req[s].insertId \in 1..Len(apps)
         /\ Pair(req[s].insertId) = <<req[s].projectId, req[s].userId>>
         /\ req[s].notifResults = <<>> /\ req[s].mailResults = <<>>
         /\ req[s].mailAttempts = 0
    /\ (req[s].kind = "submit" /\ Answered(req[s]) /\ ~req[s].wrote
        /\ ExistingApplication(req[s].projectId, req[s].userId) # {}) =>
         req[s].resp = Resp(400, "Ya aplicaste")

\* C26 witness: the retry of an application that was answered 500 because
\* the project's company has no profile row is refused as a duplicate; the
\* row is there, no notification and no mail were ever produced
C26_Witness ==
  \E s \in Slots :
    /\ req[s].kind = "submit" /\ ~req[s].after201
    /\ req[s].resp = Resp(400, "Ya aplicaste")
    /\ ~ProjectInfoFound(req[s].projectId)
    /\ ExistingApplication(req[s].projectId, req[s].userId) # {}
    /\ notifications = <<>> /\ mails = <<>>

\* C27: in a submission the technician notification returns first, then the
\* company notification, then the confirmation mail, then the operations
\* mail; no mail call starts before both notification calls have returned
\* and 201 is answered only after all four have returned.
C27_FixedOrder ==
  \A s \in Slots :
    req[s].kind = "submit" =>
      LET n == Len(req[s].notifResults)
          m == Len(req[s].mailResults)
          u == req[s].userId
          c == ProjectCompany(req[s].projectId)
      IN /\ n <= 2 /\ m <= 2
         /\ m > 0 => n = 2
         /\ req[s].pc = "notifyTechnician" => n = 0 /\ m = 0
         /\ req[s].pc = "notifyCompany" => n = 1 /\ m = 0
         /\ req[s].pc = "mailConfirmation" => n = 2 /\ m = 0
         /\ req[s].pc = "mailOperations" => n = 2 /\ m = 1
         /\ req[s].resp.code = 201 => n = 2 /\ m = 2
         /\ n = 1 => req[s].notified \in {<<>>, <<u>>}
         /\ n = 2 => req[s].notified \in {<<>>, <<u>>, <<c>>, <<u, c>>}
         /\ (req[s].pc = "mailOperations" /\ req[s].mailAttempts = 1) =>
              mails[Len(mails)] = [template |-> "confirmation", to |-> u]
         /\ (req[s].resp.code = 201 /\ req[s].mailAttempts = 2
             /\ req[s].pc = "done") =>
              mails[Len(mails)] = [template |-> "job_application", to |-> OpsMailbox]

\* C27 witness: a submission answered 201 after both notifications were
\* inserted and both mails were attempted, the operations mail last
C27_Witness ==
  \E s \in Slots :
    /\ req[s].kind = "submit" /\ req[s].pc = "done" /\ req[s].resp.code = 201
    /\ req[s].notified = <<req[s].userId, ProjectCompany(req[s].projectId)>>
    /\ req[s].mailAttempts = 2 /\ Len(req[s].mailResults) = 2
    /\ mails[Len(mails)].template = "job_application"

====
